---------------------------- MODULE Spec2Model ----------------------------
(***************************************************************************)
(* Model of the buyer-discovery and bundle/sniper classification pipeline  *)
(* of the token analyzer bot: SimpleTokenAnalyzer.getTokenInfo,            *)
(* analyzeFirstBuyers with its two lookups, the boundary detection of      *)
(* formatResults (src/bot.js, second draft, lines 483-865) and the chat    *)
(* handler of an address message (lines 886-928), with the display window  *)
(* of formatResults, the bribe-based cohorts of the earlier draft          *)
(* (src/unnamed/part_001, lines 255-292) and two requests served at once.  *)
(*                                                                         *)
(* Number representations                                                  *)
(*   - a token amount (parseFloat(formatUnits(raw, decimals))) is kept as  *)
(*     the pair [mant, exp] meaning mant * 10^(-exp);                      *)
(*   - supplyPercent is kept as an exact fraction [num, den];              *)
(*   - a gas price is kept in tenths of a Gwei, which is the precision     *)
(*     toFixed(1) leaves; the node's answer is in hundredths of a Gwei.    *)
(***************************************************************************)
EXTENDS Integers, Sequences, FiniteSets, TLC

(***************************************************************************)
(* Bounds of the model                                                     *)
(***************************************************************************)
\* longest transfer log the log source answers with
MaxTx == 3
\* longest buyer list handed to the classifier in SpecClassify
MaxBuyers == 4
\* largest small limit (from 0) tried beside the default of 100
MaxLimit == 1
\* longest buyer list of rising gas prices handed to the classifier in
\* SpecRamp
MaxRamp == 8

(***************************************************************************)
(* Program constants                                                       *)
(***************************************************************************)
ZeroAddress == "0x0000000000000000000000000000000000000000"
UniswapV2 == "0x7a250d5630b4cf539739df2c5dacb4c659f2488d"
UniswapV3 == "0xe592427a0aece92de3edee1f18e0157c05861564"
DefaultLimit == 100
EnrichBudget == 100
LPThresholdPercent == 50
SentinelTransactionIndex == 999
\* 0.1 Gwei, in tenths of a Gwei
GasChangeThreshold == 1
MaxPositionGap == 1
DefaultDecimals == 18
DefaultName == "Unknown Token"
DefaultSymbol == "TOKEN"
\* formatResults(data, startRank = 1, endRank = 10)
DefaultStartRank == 1
DefaultEndRank == 10
\* the handler: endRank > 100 is refused, and Math.max(endRank, 100)
MaxEndRank == 100
MinLimitOfHandler == 100

(***************************************************************************)
(* Input domains                                                           *)
(***************************************************************************)
\* the analysed contract, as the user typed it (mixed case)
ContractArg == "0xC0DE"
\* the V2 router as an event writes it (checksum case)
UniswapV2Checksum == "0x7a250d5630B4cF539739dF2C5dAcb4c659F2488D"
\* a sender that is not the zero address
Dev == "0xdev"
\* the buyers of the log: one wallet in two letter cases and two more
Wallets == {"0xaa", "0xAA", "0xbb", "0xcc"}
\* the `value` strings of the log: 50% and 75% of the supply
RawValues == {"2", "3"}
\* a transfer of nothing
ZeroValue == "0"
\* a `value` string that is no integer
BadValue == "0x"
\* answers of the contract: raw total supply and number of decimals
SupplyAnswers == {4}
DecimalsAnswers == {2}
\* a number of decimals formatUnits does not accept (it takes up to 80)
UnformattableDecimals == {81}
\* answers of the contract to name() and symbol(); a name can be empty
NameAnswers == {"Pepe", ""}
SymbolAnswers == {"PEPE", ""}
\* answers of the node for a transaction: gas price in hundredths of a
\* Gwei, and the position in the block
GasAnswers == {504}
IndexAnswers == {10}
BribeAnswers == {0, 1}
Limits == (0..MaxLimit) \cup {DefaultLimit}
\* signals of the buyer lists handed to the classifier in SpecClassify
ClassifyGas == {50, 250}
\* gas prices 0.1 Gwei apart, next to 5.0
ClassifyGasFine == {51, 52}
ClassifyIndex == {10, 11, 12, 13, 50}

VARIABLES
    pc,            \* position of the request in analyzeFirstBuyers / formatResults
    limit,         \* argument of analyzeFirstBuyers
    settled,       \* how the four fetches of getTokenInfo settle
    tokenInfo,     \* result of getTokenInfo
    transactions,  \* result of getTokenTransactions
    next,          \* index of the next event the for-of loop reads (1-based)
    buyers,        \* keys of the Map `buyers`
    results,       \* the array `results`
    returned,      \* `buyers` of the value analyzeFirstBuyers returns
    error,         \* message of the Error thrown, "" when none
    lookups,       \* the getTransactionDetails/getBribeAmount pairs issued
    bundleEndRank, \* formatResults: bundleEndRank
    bundledBuyers, \* formatResults: bundledBuyers
    snipingBuyers, \* formatResults: snipingBuyers
    startRank,     \* formatResults: startRank (first rank of the display window)
    endRank,       \* formatResults: endRank (last rank of the display window)
    displayBuyers, \* formatResults: displayBuyers
    calls,         \* the requests analyzeFirstBuyers made to the outside, in order
    requests,      \* the locals of two requests in flight at once (SpecPair)
    messages       \* the calls the chat handler made on the bot, in order

vars == <<pc, limit, settled, tokenInfo, transactions, next, buyers, results, returned,
          error, lookups, bundleEndRank, bundledBuyers, snipingBuyers, startRank,
          endRank, displayBuyers, calls, requests, messages>>

(***************************************************************************)
(* Helpers                                                                 *)
(***************************************************************************)
\* String.prototype.toLowerCase on the addresses of the model
ToLowerCase(a) ==
    CASE a = "0xAA" -> "0xaa"
      [] a = "0xC0DE" -> "0xc0de"
      [] a = UniswapV2Checksum -> UniswapV2
      [] OTHER -> a

Abs(x) == IF x < 0 THEN -x ELSE x

Zero == [mant |-> 0, exp |-> 0]
ZeroPercent == [num |-> 0, den |-> 1]

\* ethers.formatUnits(value, decimals) followed by parseFloat; the reading of
\* the `value` string as an integer is the step that can throw
ParseInteger(value) ==
    CASE value = "2" -> 2
      [] value = "3" -> 3
      [] value = ZeroValue -> 0
FormatUnitsThrows(value) == value \notin RawValues \cup {ZeroValue}
FormatUnits(n, decimals) == [mant |-> n, exp |-> decimals]

IsPositive(x) == x.mant > 0

\* variant: the ratio left as a fraction of 1
PercentOfRatio(amount, totalSupply) ==
    [num |-> amount.mant, den |-> totalSupply.mant]

\* (amount / totalSupply) * 100; both carry the token's decimals
PercentOf(amount, totalSupply) ==
    [num |-> amount.mant * 100, den |-> totalSupply.mant]

\* p > n for a fraction p and an integer n
PercentGt(p, n) == p.num > n * p.den

\* (x / 1e9).toFixed(1) then parseFloat: hundredths of a Gwei to tenths
ToFixed1(centi) == (centi + 5) \div 10

(***************************************************************************)
(* Types                                                                   *)
(***************************************************************************)
\* the gasPrice string of getTransactionDetails: a number with one decimal
\* (kept in tenths of a Gwei) or 'N/A'
GasString(tenths) == [isNumber |-> TRUE, tenths |-> tenths, text |-> "toFixed"]
NotAvailable == [isNumber |-> FALSE, tenths |-> 0, text |-> "N/A"]
\* (NaN).toFixed(1)
NaNString == [isNumber |-> FALSE, tenths |-> 0, text |-> "NaN"]
\* the number NaN in the place of a block position (no position is negative)
NaN == -1

\* the value getTransactionDetails returns when the lookup gives no result
\* or fails, and the initial value of gasDetails
Sentinel == [gasPrice |-> NotAvailable, transactionIndex |-> SentinelTransactionIndex]

\* getTransactionDetails on an answer of the node
TransactionDetails(gasCenti, index) ==
    [gasPrice |-> GasString(ToFixed1(gasCenti)), transactionIndex |-> index]

\* what the request of getTransactionDetails meets: axios throws (network
\* failure, timeout, HTTP error status); an answer without `result`; an
\* answer whose `result` is the text of an error (status '0', message
\* 'NOTOK'); an answer whose `result` is a transaction
DetailsResponses ==
    [kind : {"throws", "noResult", "errorText"}, gasPrice : {0}, transactionIndex : {0}]
    \cup [kind : {"transaction"}, gasPrice : GasAnswers, transactionIndex : IndexAnswers]

\* getTransactionDetails: the catch and the fall-through return the sentinel;
\* a `result` that is a text has no gasPrice and no transactionIndex, and
\* parseInt(undefined, 16) is NaN
GetTransactionDetails(response) ==
    CASE response.kind = "throws" -> Sentinel
      [] response.kind = "noResult" -> Sentinel
      [] response.kind = "errorText" -> [gasPrice |-> NaNString, transactionIndex |-> NaN]
      [] response.kind = "transaction" ->
            TransactionDetails(response.gasPrice, response.transactionIndex)

\* every value getTransactionDetails can return
DetailsAnswers == {GetTransactionDetails(r) : r \in DetailsResponses}

\* what the request of getBribeAmount meets: axios throws; an answer whose
\* status is not '1'; an answer listing a direct transfer of `amount`
BribeResponses ==
    [kind : {"throws", "notOk"}, amount : {0}]
    \cup [kind : {"transfers"}, amount : BribeAnswers]

\* getBribeAmount: the first direct transfer above 0, else 0
GetBribeAmount(response) ==
    IF response.kind = "transfers" /\ response.amount > 0 THEN response.amount ELSE 0

\* how a lookup ended, as `lookups` remembers it
Outcome(response) ==
    IF response.kind \in {"transaction", "transfers"} THEN "answered" ELSE "failed"

\* parseFloat(gasPrice) || 0, in tenths of a Gwei
ParseFloatOrZero(str) == IF str.isNumber THEN str.tenths ELSE 0

\* the logs the source can answer with: the event at position k carries hash k
\* transfers to the wallets, one of them with a value that does not convert
\* and one of nothing;
\* mints (the loop reads only their `from`); transfers to the contract
\* itself, in lower case and as the user typed it, and to the V2 router in
\* checksum case (the loop reads only their `from` and `to`)
Events ==
    [from : {Dev}, to : Wallets, value : {"2"}]
    \cup [from : {Dev}, to : {"0xaa", "0xbb"}, value : {"3"}]
    \cup {[from |-> Dev, to |-> "0xcc", value |-> BadValue]}
    \cup {[from |-> Dev, to |-> "0xbb", value |-> ZeroValue]}
    \cup [from : {ZeroAddress}, to : {"0xaa", "0xbb"}, value : {"2"}]
    \cup [from : {Dev},
          to : {ToLowerCase(ContractArg), ContractArg, UniswapV2Checksum},
          value : {"2"}]
WithHash(ev, k) == [from |-> ev.from, to |-> ev.to, value |-> ev.value, hash |-> k]
LogOf(events) == [k \in 1..Len(events) |-> WithHash(events[k], k)]

NoTokenInfo == [name |-> "", symbol |-> "", decimals |-> 0, totalSupply |-> Zero]

\* an element of the array Promise.allSettled resolves to
Fulfilled(value) == [status |-> "fulfilled", value |-> value]
Rejected(value) == [status |-> "rejected", value |-> value]

\* the ways the four calls settle; a fulfilled totalSupply can be 0
SettledAll ==
    [name : {Rejected("")} \cup {Fulfilled(v) : v \in NameAnswers},
     symbol : {Rejected("")} \cup {Fulfilled(v) : v \in SymbolAnswers},
     decimals : {Rejected(0)} \cup
                {Fulfilled(v) : v \in DecimalsAnswers \cup UnformattableDecimals},
     totalSupply : {Rejected(0)} \cup {Fulfilled(v) : v \in SupplyAnswers \cup {0}}]

\* the ways they settle in the requests of Spec: name and symbol answer, and
\* decimals and totalSupply are not rejected together
SettledOfRequest ==
    {s \in SettledAll :
        /\ s.name = Fulfilled("Pepe")
        /\ s.symbol = Fulfilled("PEPE")
        /\ s.decimals \in {Rejected(0)} \cup {Fulfilled(v) : v \in DecimalsAnswers}
        /\ s.totalSupply \in {Rejected(0)} \cup {Fulfilled(v) : v \in SupplyAnswers}
        /\ ~(s.decimals.status = "rejected" /\ s.totalSupply.status = "rejected")}

\* the value of the catch of getTokenInfo
DefaultTokenInfo ==
    [name |-> DefaultName, symbol |-> DefaultSymbol,
     decimals |-> DefaultDecimals, totalSupply |-> Zero]

\* ethers.formatUnits(value, decimals) throws
FormatUnitsRejects(decimals) == decimals \in UnformattableDecimals

\* x.status === 'fulfilled' ? x.value : default
DefaultOf(entry, default) ==
    IF entry.status = "fulfilled" THEN entry.value ELSE default

\* getTokenInfo on the settled calls
ResolveTokenInfo(s) ==
    LET tokenName == DefaultOf(s.name, DefaultName)
        tokenSymbol == DefaultOf(s.symbol, DefaultSymbol)
        tokenDecimals == DefaultOf(s.decimals, DefaultDecimals)
        tokenTotalSupply == DefaultOf(s.totalSupply, 0)
    IN  IF tokenTotalSupply > 0 /\ FormatUnitsRejects(tokenDecimals)
        THEN DefaultTokenInfo
        ELSE [name |-> tokenName,
              symbol |-> tokenSymbol,
              decimals |-> tokenDecimals,
              totalSupply |-> IF tokenTotalSupply > 0
                              THEN FormatUnits(tokenTotalSupply, tokenDecimals)
                              ELSE Zero]

(***************************************************************************)
(* analyzeFirstBuyers                                                      *)
(***************************************************************************)
Init ==
    /\ pc = "getTokenInfo"
    /\ limit \in Limits
    /\ settled \in SettledOfRequest
    /\ tokenInfo = NoTokenInfo
    /\ transactions = <<>>
    /\ next = 1
    /\ buyers = {}
    /\ results = <<>>
    /\ returned = <<>>
    /\ error = ""
    /\ lookups = <<>>
    /\ bundleEndRank = 0
    /\ bundledBuyers = <<>>
    /\ snipingBuyers = <<>>
    /\ startRank = DefaultStartRank
    /\ endRank = DefaultEndRank
    /\ displayBuyers = <<>>
    /\ calls = <<>>
    /\ requests = <<>>
    /\ messages = <<>>

\* a request to the outside: the function that makes it and, for a lookup,
\* the hash of the transaction
Call(name, txHash) == [call |-> name, txHash |-> txHash]

\* variant: the bribe looked up before the gas details
LookupCallsBribeFirst(txHash) ==
    <<Call("getBribeAmount", txHash), Call("getTransactionDetails", txHash)>>

\* gasDetails = await getTransactionDetails(tx.hash), then
\* bribeAmount = await getBribeAmount(tx.hash)
LookupCalls(txHash) ==
    <<Call("getTransactionDetails", txHash), Call("getBribeAmount", txHash)>>

\* getTokenInfo: the four calls settle one by one; a rejected field takes
\* its default, and an error thrown behind them gives all the defaults
GetTokenInfo ==
    /\ pc = "getTokenInfo"
    /\ tokenInfo' = ResolveTokenInfo(settled)
    /\ calls' = Append(calls, Call("getTokenInfo", 0))
    /\ pc' = "getTokenTransactions"
    /\ UNCHANGED <<requests, messages, limit, settled, transactions, next, buyers, results, returned, error,
                   lookups, bundleEndRank, bundledBuyers, snipingBuyers,
                   startRank, endRank, displayBuyers>>

\* the message of the error axios throws when the request fails
RequestFailed == "timeout of 15000ms exceeded"

\* getTokenTransactions and the emptiness test of analyzeFirstBuyers, on a
\* log source that answers with the event kinds `kinds`: a status other
\* than '1' and an empty list both throw, and the error of a failed request
\* is thrown on
FetchTransactions(kinds) ==
    /\ pc = "getTokenTransactions"
    /\ \/ /\ \E n \in 1..MaxTx : \E events \in [1..n -> kinds] :
                transactions' = LogOf(events)
          /\ pc' = "loop"
          /\ UNCHANGED error
       \/ /\ transactions' = <<>>
          /\ pc' = "failed"
          /\ error' \in {"No transactions found", RequestFailed}
    /\ calls' = Append(calls, Call("getTokenTransactions", 0))
    /\ UNCHANGED <<requests, messages, limit, settled, tokenInfo, next, buyers, results, returned,
                   lookups, bundleEndRank, bundledBuyers, snipingBuyers,
                   startRank, endRank, displayBuyers>>

GetTokenTransactions == FetchTransactions(Events)

\* variant: the contract address put in the Set as the user typed it
skipAddressesAsTyped == {UniswapV2, UniswapV3, ContractArg}

skipAddresses == {UniswapV2, UniswapV3, ToLowerCase(ContractArg)}

\* variant: the Map keyed by the address as written in the event
BuyerKeyCaseSensitive(tx) == tx.to

\* the key under which a recipient is remembered in the Map `buyers`
BuyerKey(tx) == ToLowerCase(tx.to)

\* variant: the mint test left out
IsMintNever(tx) == FALSE

IsMint(tx) == tx.from = ZeroAddress

\* variant: the catch leaves an amount other than 0
AmountOfNonZeroInCatch(tx, info) ==
    IF FormatUnitsThrows(tx.value) THEN FormatUnits(1, DefaultDecimals)
    ELSE FormatUnits(ParseInteger(tx.value), info.decimals)

\* amount of a retained event (0 when the conversion throws)
AmountOf(tx, info) ==
    IF FormatUnitsThrows(tx.value) THEN Zero
    ELSE FormatUnits(ParseInteger(tx.value), info.decimals)

\* supplyPercent of a retained event
SupplyPercentOf(tx, info) ==
    IF FormatUnitsThrows(tx.value) THEN ZeroPercent
    ELSE IF IsPositive(info.totalSupply) /\ IsPositive(AmountOf(tx, info))
         THEN PercentOf(AmountOf(tx, info), info.totalSupply)
         ELSE ZeroPercent

\* the record pushed on `results`
BuyerRecord(tx, info, rank, gasDetails, bribeAmount) ==
    [rank |-> rank,
     wallet |-> tx.to,
     amount |-> AmountOf(tx, info),
     supplyPercent |-> SupplyPercentOf(tx, info),
     txHash |-> tx.hash,
     gasPrice |-> ParseFloatOrZero(gasDetails.gasPrice),
     transactionIndex |-> gasDetails.transactionIndex,
     bribeAmount |-> bribeAmount]

\* variant: the record put in front (unshift)
PushFront(list, record) == <<record>> \o list

\* results.push(record)
Push(list, record) == Append(list, record)

\* one iteration of the for-of loop on a mint: continue
SkipMint ==
    /\ pc = "loop"
    /\ next <= Len(transactions)
    /\ IsMint(transactions[next])
    /\ next' = next + 1
    /\ UNCHANGED <<calls, requests, messages, pc, limit, settled, tokenInfo, transactions, buyers, results, returned,
                   error, lookups, bundleEndRank, bundledBuyers, snipingBuyers,
                   startRank, endRank, displayBuyers>>

\* one iteration on an event whose recipient is in skipAddresses: continue
SkipRouter ==
    /\ pc = "loop"
    /\ next <= Len(transactions)
    /\ ~IsMint(transactions[next])
    /\ BuyerKey(transactions[next]) \in skipAddresses
    /\ next' = next + 1
    /\ UNCHANGED <<calls, requests, messages, pc, limit, settled, tokenInfo, transactions, buyers, results, returned,
                   error, lookups, bundleEndRank, bundledBuyers, snipingBuyers,
                   startRank, endRank, displayBuyers>>

\* one iteration on an event whose recipient is already in the Map
SkipSeen ==
    /\ pc = "loop"
    /\ next <= Len(transactions)
    /\ ~IsMint(transactions[next])
    /\ BuyerKey(transactions[next]) \notin skipAddresses
    /\ BuyerKey(transactions[next]) \in buyers
    /\ next' = next + 1
    /\ UNCHANGED <<calls, requests, messages, pc, limit, settled, tokenInfo, transactions, buyers, results, returned,
                   error, lookups, bundleEndRank, bundledBuyers, snipingBuyers,
                   startRank, endRank, displayBuyers>>

\* variant: one lookup more than the budget
WithinBudgetInclusive(list) == Len(list) <= EnrichBudget

\* results.length < 100
WithinBudget(list) == Len(list) < EnrichBudget

\* one iteration that retains a buyer: the two lookups when the budget
\* allows, the push, and the break once `limit` records are held
RetainBuyer ==
    /\ pc = "loop"
    /\ next <= Len(transactions)
    /\ ~IsMint(transactions[next])
    /\ BuyerKey(transactions[next]) \notin skipAddresses
    /\ BuyerKey(transactions[next]) \notin buyers
    /\ buyers' = buyers \cup {BuyerKey(transactions[next])}
    /\ IF WithinBudget(results)
       THEN \E details \in DetailsResponses, bribe \in BribeResponses :
               /\ results' = Push(results,
                                  BuyerRecord(transactions[next], tokenInfo,
                                              Len(results) + 1,
                                              GetTransactionDetails(details),
                                              GetBribeAmount(bribe)))
               /\ lookups' = Append(lookups,
                                    [txHash |-> transactions[next].hash,
                                     details |-> Outcome(details),
                                     bribe |-> Outcome(bribe)])
               /\ calls' = calls \o LookupCalls(transactions[next].hash)
       ELSE /\ results' = Push(results,
                               BuyerRecord(transactions[next], tokenInfo,
                                           Len(results) + 1, Sentinel, 0))
            /\ UNCHANGED <<lookups, calls>>
    /\ IF Len(results) + 1 >= limit
       THEN pc' = "afterLoop" /\ next' = next
       ELSE pc' = pc /\ next' = next + 1
    /\ UNCHANGED <<requests, messages, limit, settled, tokenInfo, transactions, returned, error,
                   bundleEndRank, bundledBuyers, snipingBuyers,
                   startRank, endRank, displayBuyers>>

\* the loop runs out of events
LoopExhausted ==
    /\ pc = "loop"
    /\ next > Len(transactions)
    /\ pc' = "afterLoop"
    /\ UNCHANGED <<calls, requests, messages, limit, settled, tokenInfo, transactions, next, buyers, results, returned,
                   error, lookups, bundleEndRank, bundledBuyers, snipingBuyers,
                   startRank, endRank, displayBuyers>>

\* variant: the ranks left as they were
RerankKeepsRank(list) == list

\* results.slice(1) with the ranks rewritten from 1
Rerank(list) == [k \in 1..Len(list) |-> [list[k] EXCEPT !.rank = k]]
\* variant: a head holding exactly the threshold counts as LP
IsLPInclusive(buyer) ==
    buyer.supplyPercent.num >= LPThresholdPercent * buyer.supplyPercent.den

\* results[0].supplyPercent > 50
IsLP(buyer) == PercentGt(buyer.supplyPercent, LPThresholdPercent)

\* variant: every record above the threshold removed
FilterEveryLP(list) ==
    Rerank(SelectSeq(list, LAMBDA buyer : ~IsLP(buyer)))

\* the LP filter: the head alone is tested
FilterLP(list) ==
    IF Len(list) > 0 /\ IsLP(list[1]) THEN Rerank(Tail(list)) ELSE list

\* after the loop: 'No buyers found', or the LP filter and the return
ThrowNoBuyers ==
    /\ pc = "afterLoop"
    /\ Len(results) = 0
    /\ pc' = "failed"
    /\ error' = "No buyers found"
    /\ UNCHANGED <<calls, requests, messages, limit, settled, tokenInfo, transactions, next, buyers, results, returned,
                   lookups, bundleEndRank, bundledBuyers, snipingBuyers,
                   startRank, endRank, displayBuyers>>

ReturnBuyers ==
    /\ pc = "afterLoop"
    /\ Len(results) # 0
    /\ returned' = FilterLP(results)
    /\ pc' = "returned"
    /\ UNCHANGED <<calls, requests, messages, limit, settled, tokenInfo, transactions, next, buyers, results, error,
                   lookups, bundleEndRank, bundledBuyers, snipingBuyers,
                   startRank, endRank, displayBuyers>>

(***************************************************************************)
(* formatResults: bundle boundary                                          *)
(***************************************************************************)
\* the lower gas price g (in tenths) of the pairs (g, g + 0.1) of the model
\* whose difference in double arithmetic exceeds 0.1: 5.2 - 5.1 does,
\* 5.1 - 5.0 does not
RoundsAboveTenth == {51}

Min(a, b) == IF a < b THEN a ELSE b
Max(a, b) == IF a > b THEN a ELSE b

\* variant: any advance of the position counts as a gap
NotConsecutiveAtOne(current, previous) ==
    /\ current.transactionIndex # NaN
    /\ previous.transactionIndex # NaN
    /\ current.transactionIndex - previous.transactionIndex >= MaxPositionGap

\* positionGap > 1 (false when a position is NaN)
NotConsecutive(current, previous) ==
    /\ current.transactionIndex # NaN
    /\ previous.transactionIndex # NaN
    /\ current.transactionIndex - previous.transactionIndex > MaxPositionGap

\* variant: Math.abs left out and the operands swapped
GasChangeDropOnly(current, previous) ==
    previous.gasPrice - current.gasPrice > GasChangeThreshold

\* variant: only a rise to more than double counts as a change
GasChangeAboveDouble(current, previous) ==
    /\ current.gasPrice > 2 * previous.gasPrice
    /\ current.gasPrice > GasChangeThreshold

\* Math.abs(current.gasPrice - previous.gasPrice) > 0.1
GasChange(current, previous) ==
    \/ Abs(current.gasPrice - previous.gasPrice) > GasChangeThreshold
    \/ /\ Abs(current.gasPrice - previous.gasPrice) = GasChangeThreshold
       /\ Min(current.gasPrice, previous.gasPrice) \in RoundsAboveTenth

\* the for loop from index i (0-based, as in the code) to its break or end
RECURSIVE BundleLoop(_, _)
BundleLoop(list, i) ==
    IF i >= Len(list) THEN Len(list)
    ELSE IF NotConsecutive(list[i + 1], list[i]) \/ GasChange(list[i + 1], list[i])
         THEN i
         ELSE BundleLoop(list, i + 1)

\* variant: bundleEndRank starts at 0 instead of buyers.length
DetectBundleEndFromZero(list) ==
    IF BundleLoop(list, 1) = Len(list) THEN 0 ELSE BundleLoop(list, 1)

DetectBundleEnd(list) == BundleLoop(list, 1)

\* variant: the record at the boundary rank left out of the bundle
BundledBelow(list, lastRank) ==
    SelectSeq(list, LAMBDA buyer : buyer.rank < lastRank)

\* buyers.filter(buyer => buyer.rank <= bundleEndRank)
BundledOf(list, lastRank) ==
    SelectSeq(list, LAMBDA buyer : buyer.rank <= lastRank)

\* buyers.filter(buyer => buyer.rank > bundleEndRank)
SnipingOf(list, lastRank) ==
    SelectSeq(list, LAMBDA buyer : buyer.rank > lastRank)

\* Array.prototype.slice(start, end) for integer arguments: a negative
\* argument counts from the end of the array
Slice(list, start, end) ==
    LET from == IF start < 0 THEN Max(Len(list) + start, 0) ELSE start
        to == IF end < 0 THEN Max(Len(list) + end, 0) ELSE Min(end, Len(list))
    IN  SubSeq(list, from + 1, to)

\* [...bundledBuyers, ...snipingBuyers].slice(startRank - 1, endRank)
DisplayOf(bundled, sniping, start, end) ==
    Slice(bundled \o sniping, start - 1, end)

FormatResults ==
    /\ pc = "returned"
    /\ bundleEndRank' = DetectBundleEnd(returned)
    /\ bundledBuyers' = BundledOf(returned, DetectBundleEnd(returned))
    /\ snipingBuyers' = SnipingOf(returned, DetectBundleEnd(returned))
    /\ displayBuyers' = DisplayOf(bundledBuyers', snipingBuyers', startRank, endRank)
    /\ pc' = "formatted"
    /\ UNCHANGED <<calls, requests, messages, limit, settled, tokenInfo, transactions, next, buyers, results, returned,
                   error, lookups, startRank, endRank>>

(***************************************************************************)
(* The request: analyzeFirstBuyers followed by formatResults               *)
(***************************************************************************)
Next ==
    \/ GetTokenInfo
    \/ GetTokenTransactions
    \/ SkipMint
    \/ SkipRouter
    \/ SkipSeen
    \/ RetainBuyer
    \/ LoopExhausted
    \/ ThrowNoBuyers
    \/ ReturnBuyers
    \/ FormatResults

Spec == Init /\ [][Next]_vars

(***************************************************************************)
(* The classifier alone, on every buyer list up to MaxBuyers records       *)
(***************************************************************************)
\* the signal of a buyer: the sentinel, or a looked-up position and gas price
ClassifySignals ==
    {[gasPrice |-> 0, transactionIndex |-> SentinelTransactionIndex]}
    \cup [gasPrice : ClassifyGas, transactionIndex : ClassifyIndex]
    \cup [gasPrice : ClassifyGasFine, transactionIndex : {11}]

ClassifyWallet(k) ==
    <<"0xaa", "0xbb", "0xcc", "0xdd", "0xee", "0xff", "0x1a", "0x1b", "0x1c", "0x1d">>[k]

\* a list analyzeFirstBuyers can return: dense ranks, distinct wallets (and
\* no record at all when the LP removal took the only one)
ClassifyList(sig) ==
    [k \in 1..Len(sig) |->
        [rank |-> k,
         wallet |-> ClassifyWallet(k),
         amount |-> FormatUnits(1, 0),
         supplyPercent |-> ZeroPercent,
         txHash |-> k,
         gasPrice |-> sig[k].gasPrice,
         transactionIndex |-> sig[k].transactionIndex,
         bribeAmount |-> 0]]

InitClassify ==
    /\ pc = "returned"
    /\ limit = DefaultLimit
    /\ settled = [name |-> Rejected(""), symbol |-> Rejected(""),
                  decimals |-> Rejected(0), totalSupply |-> Rejected(0)]
    /\ tokenInfo = DefaultTokenInfo
    /\ transactions = <<>>
    /\ next = 1
    /\ buyers = {}
    /\ results = <<>>
    /\ \E n \in 0..MaxBuyers : \E sig \in [1..n -> ClassifySignals] :
          returned = ClassifyList(sig)
    /\ error = ""
    /\ lookups = <<>>
    /\ bundleEndRank = 0
    /\ bundledBuyers = <<>>
    /\ snipingBuyers = <<>>
    /\ startRank = DefaultStartRank
    /\ endRank = DefaultEndRank
    /\ displayBuyers = <<>>
    /\ calls = <<>>
    /\ requests = <<>>
    /\ messages = <<>>

NextClassify == FormatResults

SpecClassify == InitClassify /\ [][NextClassify]_vars

(***************************************************************************)
(* The classifier on buyer lists that carry every signal field of the      *)
(* record: block number, block position, gas price and priority fee        *)
(***************************************************************************)
\* block numbers of the first events of a log: one block and the next
SignalBlocks == {100, 101}
SignalIndex == {10, 11}
\* gas prices of 5.0, 5.5 and 25.0 Gwei, in tenths
SignalGas == {50, 55, 250}
\* priority fees of 0.1 and 0.4 Gwei, in tenths
SignalFees == {1, 4}

BuyerSignals ==
    [blockNumber : SignalBlocks, transactionIndex : SignalIndex,
     gasPrice : SignalGas, priorityFee : SignalFees]

\* the log is in ascending order of block and, within a block, of position
InLogOrder(sig) ==
    \A k \in 2..Len(sig) :
        \/ sig[k - 1].blockNumber < sig[k].blockNumber
        \/ /\ sig[k - 1].blockNumber = sig[k].blockNumber
           /\ sig[k - 1].transactionIndex <= sig[k].transactionIndex

\* the records results.push builds from looked-up buyers
SignalList(sig) ==
    [k \in 1..Len(sig) |->
        [rank |-> k,
         wallet |-> ClassifyWallet(k),
         amount |-> FormatUnits(1, 0),
         supplyPercent |-> ZeroPercent,
         txHash |-> k,
         blockNumber |-> sig[k].blockNumber,
         gasPrice |-> sig[k].gasPrice,
         priorityFee |-> sig[k].priorityFee,
         transactionIndex |-> sig[k].transactionIndex,
         bribeAmount |-> 0]]

InitSignals ==
    /\ pc = "returned"
    /\ limit = DefaultLimit
    /\ settled = [name |-> Rejected(""), symbol |-> Rejected(""),
                  decimals |-> Rejected(0), totalSupply |-> Rejected(0)]
    /\ tokenInfo = DefaultTokenInfo
    /\ transactions = <<>>
    /\ next = 1
    /\ buyers = {}
    /\ results = <<>>
    /\ \E n \in 1..MaxBuyers : \E sig \in [1..n -> BuyerSignals] :
          /\ InLogOrder(sig)
          /\ returned = SignalList(sig)
    /\ error = ""
    /\ lookups = <<>>
    /\ bundleEndRank = 0
    /\ bundledBuyers = <<>>
    /\ snipingBuyers = <<>>
    /\ startRank = DefaultStartRank
    /\ endRank = DefaultEndRank
    /\ displayBuyers = <<>>
    /\ calls = <<>>
    /\ requests = <<>>
    /\ messages = <<>>

NextSignals == FormatResults

SpecSignals == InitSignals /\ [][NextSignals]_vars

(***************************************************************************)
(* The classifier on longer buyer lists at consecutive block positions     *)
(* whose gas prices are 1, 2, 4 or 8 Gwei                                  *)
(***************************************************************************)
\* gas prices of 1, 2, 4 and 8 Gwei, in tenths
RampGas == {10, 20, 40, 80}

\* buyers of one block at positions 10, 11, 12, ... with the same priority fee
RampSignals(gas) ==
    [k \in 1..Len(gas) |->
        [blockNumber |-> 100, transactionIndex |-> 9 + k,
         gasPrice |-> gas[k], priorityFee |-> 1]]

InitRamp ==
    /\ pc = "returned"
    /\ limit = DefaultLimit
    /\ settled = [name |-> Rejected(""), symbol |-> Rejected(""),
                  decimals |-> Rejected(0), totalSupply |-> Rejected(0)]
    /\ tokenInfo = DefaultTokenInfo
    /\ transactions = <<>>
    /\ next = 1
    /\ buyers = {}
    /\ results = <<>>
    /\ \E n \in 1..MaxRamp : \E gas \in [1..n -> RampGas] :
          returned = SignalList(RampSignals(gas))
    /\ error = ""
    /\ lookups = <<>>
    /\ bundleEndRank = 0
    /\ bundledBuyers = <<>>
    /\ snipingBuyers = <<>>
    /\ startRank = DefaultStartRank
    /\ endRank = DefaultEndRank
    /\ displayBuyers = <<>>
    /\ calls = <<>>
    /\ requests = <<>>
    /\ messages = <<>>

NextRamp == FormatResults

SpecRamp == InitRamp /\ [][NextRamp]_vars

(***************************************************************************)
(* The display window of formatResults, in the position/gas draft and in   *)
(* the bribe-based draft (src/unnamed/part_001), on buyer lists with and   *)
(* without bribes                                                          *)
(***************************************************************************)
\* the windows formatResults is called with: the default one and the ranges
\* a user can ask for on a list of up to MaxBuyers records
Windows ==
    {[startRank |-> DefaultStartRank, endRank |-> DefaultEndRank]}
    \cup {w \in [startRank : 1..MaxBuyers, endRank : 1..(MaxBuyers + 1)] :
              w.startRank <= w.endRank}

WindowSignals ==
    [gasPrice : {50}, transactionIndex : {10, 12}, bribeAmount : BribeAnswers]

WindowList(sig) ==
    [k \in 1..Len(sig) |->
        [rank |-> k,
         wallet |-> ClassifyWallet(k),
         amount |-> FormatUnits(1, 0),
         supplyPercent |-> ZeroPercent,
         txHash |-> k,
         gasPrice |-> sig[k].gasPrice,
         transactionIndex |-> sig[k].transactionIndex,
         bribeAmount |-> sig[k].bribeAmount]]

\* part_001: [...bundledBuyers, ...snipingBuyers] with the buyers without a
\* bribe as the bundled ones and the buyers with a bribe as the snipers
CohortsByBribe(list) ==
    SelectSeq(list, LAMBDA buyer : buyer.bribeAmount = 0)
    \o SelectSeq(list, LAMBDA buyer : buyer.bribeAmount > 0)

\* formatResults of the bribe-based draft (it computes no bundleEndRank)
FormatResultsByBribe ==
    /\ pc = "returned"
    /\ bundledBuyers' = SelectSeq(returned, LAMBDA buyer : buyer.bribeAmount = 0)
    /\ snipingBuyers' = SelectSeq(returned, LAMBDA buyer : buyer.bribeAmount > 0)
    /\ displayBuyers' = Slice(CohortsByBribe(returned), startRank - 1, endRank)
    /\ pc' = "formattedByBribe"
    /\ UNCHANGED <<calls, requests, messages, limit, settled, tokenInfo, transactions, next, buyers, results,
                   returned, error, lookups, bundleEndRank, startRank, endRank>>

InitWindow ==
    /\ pc = "returned"
    /\ limit = DefaultLimit
    /\ settled = [name |-> Rejected(""), symbol |-> Rejected(""),
                  decimals |-> Rejected(0), totalSupply |-> Rejected(0)]
    /\ tokenInfo = DefaultTokenInfo
    /\ transactions = <<>>
    /\ next = 1
    /\ buyers = {}
    /\ results = <<>>
    /\ \E n \in 0..MaxBuyers : \E sig \in [1..n -> WindowSignals] :
          returned = WindowList(sig)
    /\ error = ""
    /\ lookups = <<>>
    /\ bundleEndRank = 0
    /\ bundledBuyers = <<>>
    /\ snipingBuyers = <<>>
    /\ \E w \in Windows : startRank = w.startRank /\ endRank = w.endRank
    /\ displayBuyers = <<>>
    /\ calls = <<>>
    /\ requests = <<>>
    /\ messages = <<>>

NextWindow ==
    \/ FormatResults
    \/ FormatResultsByBribe

SpecWindow == InitWindow /\ [][NextWindow]_vars

(***************************************************************************)
(* The chat handler of an address message: loading message, analysis,      *)
(* formatting, removal of the loading message, results message; the catch  *)
(* sends the error message                                                 *)
(***************************************************************************)
\* the message of the error a rejected call on the bot throws
TelegramError == "ETELEGRAM: 400 Bad Request"

\* the event kinds of the logs the handler is run on
HandlerEvents ==
    [from : {Dev}, to : {"0xaa"}, value : RawValues]
    \cup {[from |-> Dev, to |-> "0xbb", value |-> "2"]}
    \cup {[from |-> ZeroAddress, to |-> "0xaa", value |-> "2"]}
    \cup {[from |-> Dev, to |-> ContractArg, value |-> "2"]}

\* a call on the bot: it is recorded, and the handler goes on to `then` or,
\* when the call is rejected, to its catch
CallBot(call, then) ==
    /\ messages' = Append(messages, call)
    /\ \/ pc' = then /\ UNCHANGED error
       \/ pc' = "failed" /\ error' = TelegramError

\* the ranges of the messages: none (the defaults), two ranges inside the
\* bounds, and ranges that start at 0, end before their start, or end
\* above 100
HandlerRanges ==
    {[startRank |-> DefaultStartRank, endRank |-> DefaultEndRank],
     [startRank |-> 2, endRank |-> 3],
     [startRank |-> 91, endRank |-> 100],
     [startRank |-> 0, endRank |-> 5],
     [startRank |-> 5, endRank |-> 3],
     [startRank |-> 1, endRank |-> 101],
     [startRank |-> 101, endRank |-> 200]}

\* variant: the test of the upper bound left out
InvalidRangeNoUpper(start, end) == start < 1 \/ end < start

\* startRank < 1 || endRank < startRank || endRank > 100
InvalidRange(start, end) == start < 1 \/ end < start \/ end > MaxEndRank

InitHandler ==
    /\ pc = "handler"
    /\ limit = 0
    /\ settled \in SettledOfRequest
    /\ tokenInfo = NoTokenInfo
    /\ transactions = <<>>
    /\ next = 1
    /\ buyers = {}
    /\ results = <<>>
    /\ returned = <<>>
    /\ error = ""
    /\ lookups = <<>>
    /\ bundleEndRank = 0
    /\ bundledBuyers = <<>>
    /\ snipingBuyers = <<>>
    /\ \E range \in HandlerRanges :
          startRank = range.startRank /\ endRank = range.endRank
    /\ displayBuyers = <<>>
    /\ calls = <<>>
    /\ requests = <<>>
    /\ messages = <<>>

\* !ethers.isAddress(contractAddress), for an address in mixed case whose
\* checksum is wrong: one message, and the handler returns
RejectAddress ==
    /\ pc = "handler"
    /\ messages' = Append(messages, "sendInvalidAddress")
    /\ pc' = "done"
    /\ UNCHANGED <<calls, requests, limit, settled, tokenInfo, transactions, next, buyers, results,
                   returned, error, lookups, bundleEndRank, bundledBuyers,
                   snipingBuyers, startRank, endRank, displayBuyers>>

\* the range test: one message, and the handler returns
RejectRange ==
    /\ pc = "handler"
    /\ InvalidRange(startRank, endRank)
    /\ messages' = Append(messages, "sendInvalidRange")
    /\ pc' = "done"
    /\ UNCHANGED <<calls, requests, limit, settled, tokenInfo, transactions, next, buyers, results,
                   returned, error, lookups, bundleEndRank, bundledBuyers,
                   snipingBuyers, startRank, endRank, displayBuyers>>

\* await bot.sendMessage(chatId, 'Analysis in progress...'), and the call
\* analyzeFirstBuyers(contractAddress, Math.max(endRank, 100)) behind it
SendLoading ==
    /\ pc = "handler"
    /\ ~InvalidRange(startRank, endRank)
    /\ messages' = Append(messages, "sendLoading")
    /\ \/ /\ pc' = "getTokenInfo"
          /\ limit' = Max(endRank, MinLimitOfHandler)
          /\ UNCHANGED error
       \/ /\ pc' = "failed"
          /\ error' = TelegramError
          /\ UNCHANGED limit
    /\ UNCHANGED <<calls, requests, settled, tokenInfo, transactions, next, buyers, results,
                   returned, lookups, bundleEndRank, bundledBuyers, snipingBuyers,
                   startRank, endRank, displayBuyers>>

GetTokenTransactionsOfHandler == FetchTransactions(HandlerEvents)

\* await bot.deleteMessage(chatId, loadingMsg.message_id)
DeleteLoading ==
    /\ pc = "formatted"
    /\ CallBot("deleteLoading", "deleted")
    /\ UNCHANGED <<calls, requests, limit, settled, tokenInfo, transactions, next, buyers, results,
                   returned, lookups, bundleEndRank, bundledBuyers, snipingBuyers,
                   startRank, endRank, displayBuyers>>

\* await bot.sendMessage(chatId, message, ...)
SendResults ==
    /\ pc = "deleted"
    /\ CallBot("sendResults", "done")
    /\ UNCHANGED <<calls, requests, limit, settled, tokenInfo, transactions, next, buyers, results,
                   returned, lookups, bundleEndRank, bundledBuyers, snipingBuyers,
                   startRank, endRank, displayBuyers>>

\* catch (error): bot.sendMessage(chatId, 'Error: ...'), not awaited
SendError ==
    /\ pc = "failed"
    /\ messages' = Append(messages, "sendError")
    /\ pc' = "done"
    /\ UNCHANGED <<calls, requests, limit, settled, tokenInfo, transactions, next, buyers, results,
                   returned, error, lookups, bundleEndRank, bundledBuyers,
                   snipingBuyers, startRank, endRank, displayBuyers>>

NextHandler ==
    \/ RejectAddress
    \/ RejectRange
    \/ SendLoading
    \/ GetTokenInfo
    \/ GetTokenTransactionsOfHandler
    \/ SkipMint
    \/ SkipRouter
    \/ SkipSeen
    \/ RetainBuyer
    \/ LoopExhausted
    \/ ThrowNoBuyers
    \/ ReturnBuyers
    \/ FormatResults
    \/ DeleteLoading
    \/ SendResults
    \/ SendError

SpecHandler == InitHandler /\ [][NextHandler]_vars

(***************************************************************************)
(* Two requests in flight at once. The handler and analyzeFirstBuyers are  *)
(* async functions run on one thread: the code between two awaits runs     *)
(* without interruption, and at every await the other request may run.     *)
(* The two requests call the one `analyzer` object; `buyers` and `results` *)
(* are locals of each call. requests[r] holds the locals of request r.     *)
(***************************************************************************)
Requests == {1, 2}

\* the event kinds of the logs of the two requests
PairEvents ==
    {[from |-> Dev, to |-> "0xaa", value |-> "2"],
     [from |-> Dev, to |-> "0xAA", value |-> "2"],
     [from |-> Dev, to |-> "0xbb", value |-> "3"],
     [from |-> ZeroAddress, to |-> "0xbb", value |-> "2"]}

\* the lengths of the logs of the two requests
PairLogs == 0..2

\* the token of both requests: a total supply of 4 with 2 decimals
PairInfo ==
    ResolveTokenInfo([name |-> Fulfilled("Pepe"), symbol |-> Fulfilled("PEPE"),
                      decimals |-> Fulfilled(2), totalSupply |-> Fulfilled(4)])

\* the answers of the node and of the explorer for a transaction: the same
\* whenever they are asked, the position following the place in the log
PairDetails(tx) ==
    GetTransactionDetails([kind |-> "transaction", gasPrice |-> 504,
                           transactionIndex |-> 9 + tx.hash])
PairBribe(tx) == GetBribeAmount([kind |-> "transfers", amount |-> 0])

\* variant: the Map kept on the analyzer object, which the requests share
SeenByAnalyzer(reqs, r) == UNION {reqs[q].buyers : q \in Requests}

\* the Map `buyers` the loop of request r consults: a local of its call
Seen(reqs, r) == reqs[r].buyers

\* after the loop: 'No buyers found', or the LP filter, the return and
\* formatResults, up to the await of deleteMessage
FinishOf(req) ==
    IF Len(req.results) = 0
    THEN [req EXCEPT !.pc = "failed", !.error = "No buyers found"]
    ELSE [req EXCEPT !.pc = "formatted",
                     !.returned = FilterLP(req.results),
                     !.bundleEndRank = DetectBundleEnd(FilterLP(req.results))]

\* the for-of loop from the event req.next up to its next await (the lookup
\* of a new buyer, entered in the Map before it) or to its end
RECURSIVE ScanOf(_, _)
ScanOf(req, seen) ==
    IF req.next > Len(req.transactions) THEN FinishOf(req)
    ELSE LET tx == req.transactions[req.next]
         IN  IF \/ IsMint(tx)
                \/ BuyerKey(tx) \in skipAddresses
                \/ BuyerKey(tx) \in seen
             THEN ScanOf([req EXCEPT !.next = req.next + 1], seen)
             ELSE [req EXCEPT !.buyers = req.buyers \cup {BuyerKey(tx)},
                              !.pc = "getTransactionDetails"]

InitPair ==
    /\ pc = "pair"
    /\ limit = DefaultLimit
    /\ settled = [name |-> Rejected(""), symbol |-> Rejected(""),
                  decimals |-> Rejected(0), totalSupply |-> Rejected(0)]
    /\ tokenInfo = PairInfo
    /\ transactions = <<>>
    /\ next = 1
    /\ buyers = {}
    /\ results = <<>>
    /\ returned = <<>>
    /\ error = ""
    /\ lookups = <<>>
    /\ bundleEndRank = 0
    /\ bundledBuyers = <<>>
    /\ snipingBuyers = <<>>
    /\ startRank = DefaultStartRank
    /\ endRank = DefaultEndRank
    /\ displayBuyers = <<>>
    /\ calls = <<>>
    /\ \E logs \in [Requests -> UNION {[1..n -> PairEvents] : n \in PairLogs}],
          limits \in [Requests -> {1, DefaultLimit}] :
          requests = [r \in Requests |->
                         [pc |-> "handler",
                          limit |-> limits[r],
                          log |-> LogOf(logs[r]),
                          transactions |-> <<>>,
                          next |-> 1,
                          buyers |-> {},
                          results |-> <<>>,
                          returned |-> <<>>,
                          bundleEndRank |-> 0,
                          error |-> ""]]
    /\ messages = <<>>

\* request r sets its locals to `req`; nothing else changes
PairStep(r, req) ==
    /\ requests' = [requests EXCEPT ![r] = req]
    /\ UNCHANGED <<pc, limit, settled, tokenInfo, transactions, next, buyers, results,
                   returned, error, lookups, bundleEndRank, bundledBuyers,
                   snipingBuyers, startRank, endRank, displayBuyers, calls, messages>>

\* the loading message is sent and analyzeFirstBuyers calls getTokenInfo
PairSendLoading(r) ==
    /\ requests[r].pc = "handler"
    /\ PairStep(r, [requests[r] EXCEPT !.pc = "getTokenInfo"])

\* getTokenInfo answers and getTokenTransactions is called
PairGetTokenInfo(r) ==
    /\ requests[r].pc = "getTokenInfo"
    /\ PairStep(r, [requests[r] EXCEPT !.pc = "getTokenTransactions"])

\* the log arrives: an empty one throws, another one starts the loop
PairGetTokenTransactions(r) ==
    /\ requests[r].pc = "getTokenTransactions"
    /\ PairStep(r,
           IF Len(requests[r].log) = 0
           THEN [requests[r] EXCEPT !.pc = "failed", !.error = "No transactions found"]
           ELSE ScanOf([requests[r] EXCEPT !.transactions = requests[r].log],
                       Seen(requests, r)))

\* getTransactionDetails answers and getBribeAmount is called
PairGetTransactionDetails(r) ==
    /\ requests[r].pc = "getTransactionDetails"
    /\ PairStep(r, [requests[r] EXCEPT !.pc = "getBribeAmount"])

\* getBribeAmount answers: the push, the break test and the loop up to its
\* next await
PairGetBribeAmount(r) ==
    /\ requests[r].pc = "getBribeAmount"
    /\ LET req == requests[r]
           tx == req.transactions[req.next]
           pushed == [req EXCEPT !.results =
                         Push(req.results,
                              BuyerRecord(tx, PairInfo, Len(req.results) + 1,
                                          PairDetails(tx), PairBribe(tx)))]
       IN  PairStep(r,
               IF Len(pushed.results) >= pushed.limit
               THEN FinishOf(pushed)
               ELSE ScanOf([pushed EXCEPT !.next = req.next + 1], Seen(requests, r)))

\* the loading message is deleted and the results are sent, or the catch
\* sends the error message
PairAnswer(r) ==
    /\ requests[r].pc \in {"formatted", "failed"}
    /\ PairStep(r, [requests[r] EXCEPT !.pc = "done"])

NextPair ==
    \/ \E r \in Requests : PairSendLoading(r)
    \/ \E r \in Requests : PairGetTokenInfo(r)
    \/ \E r \in Requests : PairGetTokenTransactions(r)
    \/ \E r \in Requests : PairGetTransactionDetails(r)
    \/ \E r \in Requests : PairGetBribeAmount(r)
    \/ \E r \in Requests : PairAnswer(r)

SpecPair == InitPair /\ [][NextPair]_vars

(***************************************************************************)
(* getTokenInfo alone, on every way its four calls settle                  *)
(***************************************************************************)
InitTokenInfo ==
    /\ pc = "getTokenInfo"
    /\ limit = DefaultLimit
    /\ settled \in SettledAll
    /\ tokenInfo = NoTokenInfo
    /\ transactions = <<>>
    /\ next = 1
    /\ buyers = {}
    /\ results = <<>>
    /\ returned = <<>>
    /\ error = ""
    /\ lookups = <<>>
    /\ bundleEndRank = 0
    /\ bundledBuyers = <<>>
    /\ snipingBuyers = <<>>
    /\ startRank = DefaultStartRank
    /\ endRank = DefaultEndRank
    /\ displayBuyers = <<>>
    /\ calls = <<>>
    /\ requests = <<>>
    /\ messages = <<>>

NextTokenInfo == GetTokenInfo

SpecTokenInfo == InitTokenInfo /\ [][NextTokenInfo]_vars

(***************************************************************************)
(* The loop around the lookup budget: 99 buyers are retained and the log   *)
(* goes on for up to MaxTx events                                          *)
(***************************************************************************)
BudgetWallet(k) == "0xb" \o ToString(k)

\* the first 99 events of the log: transfers to 99 wallets
BudgetPrefix ==
    [k \in 1..(EnrichBudget - 1) |->
        [from |-> Dev, to |-> BudgetWallet(k), value |-> "2", hash |-> k]]

\* the events behind them: transfers to one of the 99 and to new wallets
BudgetTailEvents ==
    [from : {Dev}, to : {BudgetWallet(1), "0xaa", "0xbb", "0xcc"}, value : {"2"}]

\* limits at and above the budget
BudgetLimits == {EnrichBudget, EnrichBudget + 1, EnrichBudget + MaxTx}

BudgetInfo == DefaultTokenInfo

\* the answers the 99 lookups met
BudgetDetails == CHOOSE r \in DetailsResponses : r.kind = "transaction"
BudgetBribe == CHOOSE r \in BribeResponses : r.kind = "notOk"

\* the loop after its 99th iteration
InitBudget ==
    /\ pc = "loop"
    /\ limit \in BudgetLimits
    /\ settled = [name |-> Rejected(""), symbol |-> Rejected(""),
                  decimals |-> Rejected(0), totalSupply |-> Rejected(0)]
    /\ tokenInfo = BudgetInfo
    /\ \E n \in 1..MaxTx : \E tail \in [1..n -> BudgetTailEvents] :
          transactions =
              BudgetPrefix \o [k \in 1..n |-> WithHash(tail[k], EnrichBudget - 1 + k)]
    /\ next = EnrichBudget
    /\ buyers = {BuyerKey(BudgetPrefix[k]) : k \in 1..(EnrichBudget - 1)}
    /\ results = [k \in 1..(EnrichBudget - 1) |->
                     BuyerRecord(BudgetPrefix[k], BudgetInfo, k,
                                 GetTransactionDetails(BudgetDetails),
                                 GetBribeAmount(BudgetBribe))]
    /\ returned = <<>>
    /\ error = ""
    /\ lookups = [k \in 1..(EnrichBudget - 1) |->
                     [txHash |-> k,
                      details |-> Outcome(BudgetDetails),
                      bribe |-> Outcome(BudgetBribe)]]
    /\ calls = <<Call("getTokenInfo", 0), Call("getTokenTransactions", 0)>>
               \o [k \in 1..(2 * (EnrichBudget - 1)) |->
                      LookupCalls((k + 1) \div 2)[2 - (k % 2)]]
    /\ bundleEndRank = 0
    /\ bundledBuyers = <<>>
    /\ snipingBuyers = <<>>
    /\ startRank = DefaultStartRank
    /\ endRank = DefaultEndRank
    /\ displayBuyers = <<>>
    /\ requests = <<>>
    /\ messages = <<>>

NextBudget ==
    \/ SkipSeen
    \/ RetainBuyer
    \/ LoopExhausted
    \/ ReturnBuyers

SpecBudget == InitBudget /\ [][NextBudget]_vars

(***************************************************************************)
(* Properties of analyzeFirstBuyers (checked under Spec)                   *)
(***************************************************************************)
\* analyzeFirstBuyers has returned a value
HasReturned == pc \in {"returned", "formatted"}

SameWallet(a, b) == ToLowerCase(a) = ToLowerCase(b)

\* an event that is no mint and whose recipient is not excluded
Eligible(tx) ==
    /\ tx.from # ZeroAddress
    /\ ToLowerCase(tx.to) \notin {UniswapV2, UniswapV3, ToLowerCase(ContractArg)}

\* the events the loop has read
Scanned == 1..Min(next, Len(transactions))

\* the head held by `results` is above the LP threshold
HeadAboveThreshold ==
    results[1].supplyPercent.num > LPThresholdPercent * results[1].supplyPercent.den

\* C1: the returned buyer list holds no two records whose wallets are equal
\* when compared case-insensitively.
C1_NoDuplicateWallets ==
    HasReturned =>
        \A a, b \in 1..Len(returned) :
            a # b => ~SameWallet(returned[a].wallet, returned[b].wallet)

\* the log addresses one wallet in two letter cases and two buyers are returned
C1_Witness ==
    /\ pc = "returned"
    /\ Len(returned) >= 2
    /\ \E i, j \in 1..Len(transactions) :
          /\ i < j
          /\ Eligible(transactions[i]) /\ Eligible(transactions[j])
          /\ transactions[i].to # transactions[j].to
          /\ SameWallet(transactions[i].to, transactions[j].to)

\* C2: the record at position k of the returned list has rank k, with and
\* without the removal of the rank-1 record as a liquidity pool.
C2_DenseRanks ==
    HasReturned => \A k \in 1..Len(returned) : returned[k].rank = k

\* the head was removed as LP and two records were renumbered
C2_Witness ==
    /\ pc = "returned"
    /\ Len(results) = 3
    /\ Len(returned) = 2

\* C3: every returned record is built from the earliest eligible event
\* addressed to its wallet, and the source events of the returned records
\* occur in the log in the order of the ranks, also after the LP removal.
C3_FirstOccurrenceOrder ==
    HasReturned =>
        /\ \A k \in 1..Len(returned) :
              /\ returned[k].txHash \in 1..Len(transactions)
              /\ transactions[returned[k].txHash].to = returned[k].wallet
              /\ Eligible(transactions[returned[k].txHash])
              /\ \A j \in 1..(returned[k].txHash - 1) :
                    Eligible(transactions[j]) =>
                        ~SameWallet(transactions[j].to, returned[k].wallet)
        /\ \A a, b \in 1..Len(returned) :
              returned[a].rank < returned[b].rank =>
                  returned[a].txHash < returned[b].txHash

\* two records remain after the LP removal, and the log's first event is a
\* mint, so that a source event is not at the position of its rank
C3_Witness ==
    /\ pc = "returned"
    /\ Len(returned) = 2
    /\ Len(results) = 3
    /\ Len(transactions) = 3
    /\ returned[1].txHash = 2

\* C4: analyzeFirstBuyers never returns a successful result whose buyer list
\* is empty (also when the only retained buyer is removed as LP).
C4_NeverEmptySuccess ==
    HasReturned => Len(returned) > 0

\* C5: when the rank-1 record retained by the loop holds more than 50% of
\* the supply, the returned list is the retained list without it, in the
\* same order and renumbered from 1; when it holds 50% or less, the returned
\* list is the retained list.
C5_LPExclusion ==
    HasReturned =>
        IF HeadAboveThreshold
        THEN /\ Len(returned) = Len(results) - 1
             /\ \A k \in 1..Len(returned) :
                   returned[k] = [results[k + 1] EXCEPT !.rank = k]
        ELSE returned = results

\* the head holds 75% and is removed; the record behind it holds exactly 50%
\* and is returned as rank 1
C5_Witness ==
    /\ pc = "returned"
    /\ Len(results) >= 2
    /\ HeadAboveThreshold
    /\ results[2].supplyPercent.num = LPThresholdPercent * results[2].supplyPercent.den
    /\ returned[1].wallet = results[2].wallet

\* C10: no returned record is built from a mint, a mint does not mark its
\* recipient as seen (every eligible event the loop has read has its wallet
\* retained, from an eligible event at or before it), and a wallet that
\* only receives mints is not retained.
C10_MintsAreSkipped ==
    pc \in {"afterLoop", "returned", "formatted"} =>
        /\ \A k \in 1..Len(returned) :
              transactions[returned[k].txHash].from # ZeroAddress
        /\ \A k \in 1..Len(results) :
              /\ transactions[results[k].txHash].from # ZeroAddress
              /\ transactions[results[k].txHash].to = results[k].wallet
        /\ \A j \in Scanned :
              Eligible(transactions[j]) =>
                  \E k \in 1..Len(results) :
                      /\ SameWallet(results[k].wallet, transactions[j].to)
                      /\ results[k].txHash <= j

\* a wallet receives a mint and then a transfer and is returned with the
\* transfer as its source, while another wallet receives only a mint
C10_Witness ==
    /\ pc = "returned"
    /\ Len(transactions) = 3
    /\ transactions[1].from = ZeroAddress /\ transactions[1].to = "0xbb"
    /\ transactions[2].from = ZeroAddress /\ transactions[2].to = "0xaa"
    /\ transactions[3].from # ZeroAddress /\ transactions[3].to = "0xaa"
    /\ Len(returned) = 1
    /\ returned[1].wallet = "0xaa"
    /\ returned[1].txHash = 3

\* the record is above the LP threshold
AboveThreshold(buyer) ==
    buyer.supplyPercent.num > LPThresholdPercent * buyer.supplyPercent.den

\* C25: the LP filter removes at most one record, and only the head: the
\* returned list has the length of the retained list or one less, every
\* retained record of rank 2 or later is returned (also when it holds more
\* than 50% of the supply), and the record that becomes rank 1 after the
\* removal of the head is kept even if it holds more than 50% too.
C25_OnlyHeadRemoved ==
    HasReturned =>
        /\ Len(returned) \in {Len(results), Len(results) - 1}
        /\ \A k \in 2..Len(results) :
              \E j \in {k - 1, k} :
                  /\ j <= Len(returned)
                  /\ returned[j] = [results[k] EXCEPT !.rank = j]
        /\ Len(returned) < Len(results) =>
              /\ AboveThreshold(results[1])
              /\ \A j \in 1..Len(returned) :
                    returned[j].txHash # results[1].txHash

\* the head and the record behind it both hold 75%: the head is removed and
\* the second is returned as rank 1, followed by a third
C25_Witness ==
    /\ pc = "returned"
    /\ Len(results) = 3
    /\ AboveThreshold(results[1])
    /\ AboveThreshold(results[2])
    /\ Len(returned) = 2
    /\ returned[1].wallet = results[2].wallet
    /\ AboveThreshold(returned[1])

\* the addresses no buyer may carry: the analysed contract and the routers
Excluded == {ContractArg, UniswapV2, UniswapV3}

\* C11: no retained and no returned record has a wallet equal, compared
\* case-insensitively, to the analysed contract or to a router of the
\* exclusion set, whatever the letter case of the argument and of `to`.
C11_NoExcludedWallet ==
    /\ \A k \in 1..Len(results) :
          \A x \in Excluded : ~SameWallet(results[k].wallet, x)
    /\ \A k \in 1..Len(returned) :
          \A x \in Excluded : ~SameWallet(returned[k].wallet, x)

\* the log holds transfers to the contract in the user's letter case and to
\* the router in checksum case before the transfer of the one returned buyer
C11_Witness ==
    /\ pc = "returned"
    /\ Len(transactions) = 3
    /\ transactions[1].from # ZeroAddress /\ transactions[1].to = ContractArg
    /\ transactions[2].from # ZeroAddress /\ transactions[2].to = UniswapV2Checksum
    /\ Len(returned) = 1
    /\ returned[1].txHash = 3

\* D: the number of distinct eligible recipients of the log
DistinctEligible ==
    Cardinality({ToLowerCase(transactions[j].to) :
                    j \in {i \in 1..Len(transactions) : Eligible(transactions[i])}})

\* the loop is over
LoopDone == pc \in {"afterLoop", "returned", "formatted"}

\* C12: for every non-negative limit the loop retains exactly min(limit, D)
\* recipients, and once `limit` recipients are retained it has read no event
\* behind the one that gave the last of them.
C12_RetainsMinOfLimit ==
    LoopDone =>
        /\ Len(results) = Min(limit, DistinctEligible)
        /\ Len(results) >= limit =>
              /\ Len(results) > 0
              /\ next = results[Len(results)].txHash

\* the same statement for the limits from 1 on
RetainsMinOfLimitFromOne == limit >= 1 => C12_RetainsMinOfLimit

\* limit 1 stops the loop at the first of two eligible recipients
RetainsMinOfLimitFromOneWitness ==
    /\ pc = "afterLoop"
    /\ limit = 1
    /\ DistinctEligible >= 2
    /\ next < Len(transactions)

\* C13: for every returned record supplyPercent is amount / totalSupply * 100
\* when totalSupply > 0 and 0 when totalSupply is 0, and it is never
\* negative. (A non-zero amount and the total supply carry the same number
\* of decimals, so the quotient is the quotient of the mantissas.)
C13_SupplyPercent ==
    HasReturned =>
        \A k \in 1..Len(returned) :
            LET p == returned[k].supplyPercent
                amount == returned[k].amount
                totalSupply == tokenInfo.totalSupply
            IN  /\ p.den > 0
                /\ p.num >= 0
                /\ IF totalSupply.mant > 0
                   THEN IF amount.mant = 0
                        THEN p.num = 0
                        ELSE /\ amount.exp = totalSupply.exp
                             /\ p.num * totalSupply.mant = 100 * amount.mant * p.den
                   ELSE p.num = 0

\* a returned buyer received 2 of a supply of 4 (50%), another nothing
C13_Witness ==
    /\ pc = "returned"
    /\ tokenInfo.totalSupply.mant = 4
    /\ Len(returned) = 2
    /\ returned[1].amount.mant = 2
    /\ returned[1].supplyPercent.num = 50 * returned[1].supplyPercent.den
    /\ returned[2].amount.mant = 0
    /\ transactions[returned[2].txHash].value = ZeroValue

\* the record carries the values of a buyer that was not looked up
CarriesSentinel(buyer) ==
    /\ buyer.gasPrice = 0
    /\ buyer.transactionIndex = SentinelTransactionIndex
    /\ buyer.bribeAmount = 0

\* C14: the lookups are issued only for the buyers retained while fewer
\* than the budget (100) were retained: the i-th pair of lookups is for the
\* i-th retained buyer, every buyer retained behind the budget has no lookup
\* and carries the sentinel values, so that at most 100 buyers are enriched,
\* whatever the limit and the length of the log.
C14_LookupBudget ==
    /\ Len(lookups) = Min(Len(results), EnrichBudget)
    /\ \A i \in 1..Len(lookups) : lookups[i].txHash = results[i].txHash
    /\ \A k \in 1..Len(results) :
          k > EnrichBudget =>
              /\ CarriesSentinel(results[k])
              /\ \A i \in 1..Len(lookups) : lookups[i].txHash # results[k].txHash

\* 102 buyers are retained and the last two were not looked up
C14_Witness ==
    /\ pc = "returned"
    /\ Len(results) = EnrichBudget + 2
    /\ Len(lookups) = EnrichBudget
    /\ lookups[EnrichBudget].details = "answered"
    /\ CarriesSentinel(results[EnrichBudget + 1])

\* the errors analyzeFirstBuyers throws by design
FatalErrors == {"No transactions found", RequestFailed, "No buyers found"}

\* the number of distinct eligible recipients among the first j events
EligibleUpTo(j) ==
    Cardinality({ToLowerCase(transactions[i].to) :
                    i \in {h \in 1..j : Eligible(transactions[h])}})

\* the event at position j is the first eligible one addressed to its wallet
FirstOfItsWallet(j) ==
    /\ Eligible(transactions[j])
    /\ \A h \in 1..(j - 1) :
          Eligible(transactions[h]) =>
              ~SameWallet(transactions[h].to, transactions[j].to)

LookupKeepsBuyer(i) ==
    /\ results[i].txHash = lookups[i].txHash
    /\ results[i].rank = i
    /\ lookups[i].bribe = "failed" => results[i].bribeAmount = 0

LoopEndsRegularly ==
    /\ pc = "failed" => error \in FatalErrors
    /\ LoopDone => (next > Len(transactions) \/ Len(results) >= limit)

\* C16: a failure, error response or timeout of getTransactionDetails or
\* getBribeAmount never aborts the request and never drops the buyer: the
\* failed lookup gives the sentinel value (gas price 'N/A', read as 0, and
\* position 999; bribe 0), the buyer is retained at the same rank, and the
\* remaining events are still processed.
C16_LookupFailureGivesSentinel ==
    /\ LoopEndsRegularly
    /\ \A i \in 1..Len(lookups) :
          /\ LookupKeepsBuyer(i)
          /\ lookups[i].details = "failed" =>
                /\ results[i].gasPrice = 0
                /\ results[i].transactionIndex = SentinelTransactionIndex

\* the part of the statement that holds: no abort, no dropped buyer, and a
\* failed lookup of the details gives the sentinel or the NaN position
LookupFailureNeverAborts ==
    /\ LoopEndsRegularly
    /\ \A i \in 1..Len(lookups) :
          /\ LookupKeepsBuyer(i)
          /\ lookups[i].details = "failed" =>
                /\ results[i].gasPrice = 0
                /\ results[i].transactionIndex \in {SentinelTransactionIndex, NaN}

\* both lookups of the first of three buyers fail and all three are returned
LookupFailureNeverAbortsWitness ==
    /\ pc = "returned"
    /\ Len(returned) = 3
    /\ lookups[1].details = "failed"
    /\ lookups[1].bribe = "failed"
    /\ returned[1].txHash = lookups[1].txHash
    /\ returned[1].transactionIndex = SentinelTransactionIndex
    /\ lookups[2].details = "answered"

\* the bribe lookup of the k-th retained buyer was not issued, or failed
BribeAbsent(k) ==
    \/ k > Len(lookups)
    \/ lookups[k].bribe = "failed"

\* the bribe lookup of the k-th retained buyer was answered and listed no
\* direct transfer above 0
BribeFoundNone(k) ==
    /\ k <= Len(lookups)
    /\ lookups[k].bribe = "answered"
    /\ results[k].bribeAmount = 0

\* C22: a buyer whose bribe lookup was not attempted or failed and a buyer
\* whose lookup completed and found no bribe never carry the same value in
\* the bribe field of their records.
C22_AbsentBribeIsDistinct ==
    \A i, j \in 1..Len(results) :
        (BribeAbsent(i) /\ BribeFoundNone(j)) =>
            results[i].bribeAmount # results[j].bribeAmount

\* the call is one of the two lookups of a transaction
IsLookup(c) == c.call \in {"getTransactionDetails", "getBribeAmount"}

\* C28: within one request the calls follow the pipeline order: the token
\* metadata is resolved before the transfer log is fetched; no lookup is
\* issued before the log has been returned non-empty, and none when the
\* fetch fails or the log is empty; the lookups are issued for the retained
\* buyers in ascending order of rank, the gas details before the bribe of
\* the same buyer; and no lookup is issued for an event that was skipped as
\* a mint, an excluded address or a recipient already seen.
C28_PipelineOrder ==
    /\ Len(calls) >= 1 => calls[1] = Call("getTokenInfo", 0)
    /\ Len(calls) >= 2 =>
          /\ calls[2] = Call("getTokenTransactions", 0)
          /\ tokenInfo # NoTokenInfo
    /\ \A i \in 1..Len(calls) :
          IsLookup(calls[i]) =>
              /\ i > 2
              /\ Len(transactions) > 0
              /\ error \notin {"No transactions found", RequestFailed}
              /\ calls[i].txHash \in 1..Len(transactions)
              /\ FirstOfItsWallet(calls[i].txHash)
    /\ \A i \in 3..Len(calls) : IsLookup(calls[i])
    /\ Len(calls) > 2 => Len(calls) = 2 + 2 * Min(Len(results), EnrichBudget)
    /\ \A k \in 1..Min(Len(results), EnrichBudget) :
          /\ 2 * k + 2 <= Len(calls)
          /\ calls[2 * k + 1] = Call("getTransactionDetails", results[k].txHash)
          /\ calls[2 * k + 2] = Call("getBribeAmount", results[k].txHash)
          /\ results[k].rank = k

\* a log of a buyer, a transfer to the contract and a second buyer: the
\* lookups are issued for the first and the third event, in that order
C28_Witness ==
    /\ pc = "returned"
    /\ Len(transactions) = 3
    /\ ~Eligible(transactions[2])
    /\ Len(calls) = 6
    /\ calls[3] = Call("getTransactionDetails", 1)
    /\ calls[4] = Call("getBribeAmount", 1)
    /\ calls[5] = Call("getTransactionDetails", 3)
    /\ calls[6] = Call("getBribeAmount", 3)

\* the fetch of the log failed: no lookup was issued
NoLookupAfterFailedFetchWitness ==
    /\ pc = "failed"
    /\ error = RequestFailed
    /\ calls = <<Call("getTokenInfo", 0), Call("getTokenTransactions", 0)>>

\* the sequence of (transactionIndex, gasPrice) pairs of a list
SignalsOf(list) ==
    [k \in 1..Len(list) |->
        [gasPrice |-> list[k].gasPrice,
         transactionIndex |-> list[k].transactionIndex]]

\* the boundary of a returned list is the boundary of the list that has the
\* same (transactionIndex, gasPrice) pairs and other wallets, amounts,
\* percentages, hashes and bribes
BoundaryReadsSignalsOnly ==
    pc = "formatted" =>
        bundleEndRank = DetectBundleEnd(ClassifyList(SignalsOf(returned)))

\* C9: a buyer whose gas/position signal is absent (the sentinel of a skipped
\* or failed lookup: gas price 0 after parsing 'N/A', position 999) never
\* causes a bundle boundary: no boundary lies between two adjacent records of
\* which one carries the sentinel.
SignalAbsent(buyer) ==
    buyer.gasPrice = 0 /\ buyer.transactionIndex = SentinelTransactionIndex

C9_AbsentSignalNeverBreaks ==
    (pc = "formatted" /\ bundleEndRank < Len(returned)) =>
        /\ ~SignalAbsent(returned[bundleEndRank])
        /\ ~SignalAbsent(returned[bundleEndRank + 1])

(***************************************************************************)
(* Properties of the chat handler (checked under SpecHandler)              *)
(***************************************************************************)
\* the number of calls `call` the handler made
Calls(call) == Cardinality({i \in 1..Len(messages) : messages[i] = call})

\* the loop has run and no buyer is left behind the LP filter
NoBuyersRemain == transactions # <<>> /\ Len(FilterLP(results)) = 0

\* C18: a request that meets a fatal condition (the transfer-log fetch fails
\* or reports no transactions, or no buyers remain) returns no buyer list,
\* and the handler sends exactly one error message and no results message.
C18_FatalSendsOneError ==
    (pc = "done" /\ (error \in FatalErrors \/ NoBuyersRemain)) =>
        /\ error # ""
        /\ returned = <<>>
        /\ Calls("sendError") = 1
        /\ Calls("sendResults") = 0

\* the same for the conditions analyzeFirstBuyers throws on
ThrownErrorSendsOneError ==
    (pc = "done" /\ error \in FatalErrors) =>
        /\ returned = <<>>
        /\ Calls("sendError") = 1
        /\ Calls("sendResults") = 0

\* a log of mints only: 'No buyers found' is answered with one error message
ThrownErrorSendsOneErrorWitness ==
    /\ pc = "done"
    /\ error = "No buyers found"
    /\ Len(transactions) = 2
    /\ messages = <<"sendLoading", "sendError">>

(***************************************************************************)
(* Properties of getTokenInfo (checked under SpecTokenInfo)                *)
(***************************************************************************)
\* getTokenInfo has returned
HasTokenInfo == pc # "getTokenInfo"

\* the total supply of the result is the fetched one
SupplyIsFetched ==
    IF settled.totalSupply.value > 0
    THEN tokenInfo.totalSupply.mant = settled.totalSupply.value
    ELSE tokenInfo.totalSupply = Zero

\* every field whose call was fulfilled holds the fetched value
FetchedValuesSurvive ==
    HasTokenInfo =>
        /\ settled.name.status = "fulfilled" => tokenInfo.name = settled.name.value
        /\ settled.symbol.status = "fulfilled" => tokenInfo.symbol = settled.symbol.value
        /\ settled.decimals.status = "fulfilled" =>
              tokenInfo.decimals = settled.decimals.value
        /\ settled.totalSupply.status = "fulfilled" => SupplyIsFetched

\* every field whose call was rejected holds the default the specification
\* names: decimals 18, totalSupply 0, name and symbol "Unknown"
RejectedFieldsTakeNamedDefaults ==
    HasTokenInfo =>
        /\ settled.name.status = "rejected" => tokenInfo.name = "Unknown"
        /\ settled.symbol.status = "rejected" => tokenInfo.symbol = "Unknown"
        /\ settled.decimals.status = "rejected" => tokenInfo.decimals = DefaultDecimals
        /\ settled.totalSupply.status = "rejected" => tokenInfo.totalSupply = Zero

\* C17: getTokenInfo never fails outward, and for every subset of the four
\* fetches that fails the result holds the fetched value of each field that
\* succeeded and the default of each field that failed (decimals 18,
\* totalSupply 0, name/symbol "Unknown"); a failure tied to one field never
\* replaces the fetched value of another field with its default.
C17_FieldwiseDefaults ==
    /\ error = ""
    /\ FetchedValuesSurvive
    /\ RejectedFieldsTakeNamedDefaults

\* what the code does: the defaults of name and symbol are 'Unknown Token'
\* and 'TOKEN', and when the total supply does not convert with the fetched
\* decimals, all four fields take their defaults
FieldwiseDefaultsOfTheCode ==
    HasTokenInfo =>
        IF /\ DefaultOf(settled.totalSupply, 0) > 0
           /\ FormatUnitsRejects(DefaultOf(settled.decimals, DefaultDecimals))
        THEN tokenInfo = DefaultTokenInfo
        ELSE /\ tokenInfo.name =
                   (IF settled.name.status = "fulfilled"
                    THEN settled.name.value ELSE "Unknown Token")
             /\ tokenInfo.symbol =
                   (IF settled.symbol.status = "fulfilled"
                    THEN settled.symbol.value ELSE "TOKEN")
             /\ tokenInfo.decimals =
                   (IF settled.decimals.status = "fulfilled"
                    THEN settled.decimals.value ELSE 18)
             /\ IF settled.totalSupply.status = "fulfilled"
                THEN SupplyIsFetched
                ELSE tokenInfo.totalSupply = Zero

\* name and totalSupply are rejected, symbol and decimals are kept
FieldwiseDefaultsOfTheCodeWitness ==
    /\ HasTokenInfo
    /\ settled.name.status = "rejected"
    /\ settled.totalSupply.status = "rejected"
    /\ tokenInfo = [name |-> "Unknown Token", symbol |-> "PEPE",
                    decimals |-> 2, totalSupply |-> Zero]

\* the fetched name and symbol are lost to a total supply that does not
\* convert
FetchedValuesLost ==
    /\ HasTokenInfo
    /\ settled.name = Fulfilled("Pepe")
    /\ tokenInfo.name = "Unknown Token"

(***************************************************************************)
(* Properties of the bundle boundary (checked under SpecClassify)          *)
(***************************************************************************)
\* the pair of ranks (i - 1, i) has a gap in block position
PositionBreak(i) ==
    returned[i].transactionIndex - returned[i - 1].transactionIndex > 1

\* the pair of ranks (i - 1, i) differs in gas price as the code measures it
GasBreak(i) == GasChange(returned[i], returned[i - 1])

\* the gas price of rank i is more than double that of rank i - 1 and above
\* the floor; the code names no floor of its own, so the floor is its one
\* absolute gas threshold, the 0.1 Gwei tolerance
GasJump(i) ==
    /\ returned[i].gasPrice > 2 * returned[i - 1].gasPrice
    /\ returned[i].gasPrice > GasChangeThreshold

\* C6: if (i-1, i) is the first adjacent pair with a position difference
\* above 1 and no earlier pair has a gas break, bundleEndRank is i-1.
C6_PositionBreak ==
    pc = "formatted" =>
        \A i \in 2..Len(returned) :
            ( /\ PositionBreak(i)
              /\ \A j \in 2..(i - 1) : ~PositionBreak(j) /\ ~GasBreak(j) )
            => bundleEndRank = i - 1

\* positions [10,11,12,50] with equal gas give bundleEndRank 3
C6_Witness ==
    /\ pc = "formatted"
    /\ Len(returned) = 4
    /\ \A k \in 1..4 : returned[k].gasPrice = 50
    /\ returned[1].transactionIndex = 10
    /\ returned[2].transactionIndex = 11
    /\ returned[3].transactionIndex = 12
    /\ returned[4].transactionIndex = 50
    /\ bundleEndRank = 3

\* C7: with contiguous positions, if (i-1, i) is the first adjacent pair whose
\* gas price more than doubles and exceeds the floor, and all earlier pairs
\* have equal gas, bundleEndRank is i-1.
C7_GasBreak ==
    pc = "formatted" =>
        \A i \in 2..Len(returned) :
            ( /\ \A j \in 2..i : ~PositionBreak(j)
              /\ GasJump(i)
              /\ \A j \in 2..(i - 1) : returned[j].gasPrice = returned[j - 1].gasPrice )
            => bundleEndRank = i - 1

\* consecutive positions with gas [5,5,5,25] give bundleEndRank 3
C7_Witness ==
    /\ pc = "formatted"
    /\ Len(returned) = 4
    /\ \A k \in 1..4 : returned[k].transactionIndex = 9 + k
    /\ \A k \in 1..3 : returned[k].gasPrice = 50
    /\ returned[4].gasPrice = 250
    /\ bundleEndRank = 3

\* C8: when every adjacent pair has a position difference of at most 1 and
\* equal gas price, bundleEndRank is the length of the list.
C8_NoBoundary ==
    pc = "formatted" =>
        ( (\A i \in 2..Len(returned) :
              /\ ~PositionBreak(i)
              /\ returned[i].gasPrice = returned[i - 1].gasPrice)
          => bundleEndRank = Len(returned) )

\* consecutive positions with gas [5,5,5,5] give bundleEndRank 4
C8_Witness ==
    /\ pc = "formatted"
    /\ Len(returned) = 4
    /\ \A k \in 1..4 : returned[k].transactionIndex = 9 + k
    /\ \A k \in 1..4 : returned[k].gasPrice = 50
    /\ bundleEndRank = 4

\* C20: for every buyer list of length N handed to the classifier,
\* 0 <= bundleEndRank <= N, the bundled cohort is exactly the records of
\* rank 1..bundleEndRank and the sniper cohort exactly those of rank
\* bundleEndRank+1..N: the cohorts are disjoint, cover the list, and bundled
\* followed by snipers is the list in rank order.
C20_CohortsPartition ==
    pc = "formatted" =>
        /\ 0 <= bundleEndRank
        /\ bundleEndRank <= Len(returned)
        /\ bundledBuyers = SubSeq(returned, 1, bundleEndRank)
        /\ snipingBuyers = SubSeq(returned, bundleEndRank + 1, Len(returned))
        /\ \A k \in 1..Len(bundledBuyers) : bundledBuyers[k].rank = k
        /\ \A k \in 1..Len(snipingBuyers) :
              snipingBuyers[k].rank = bundleEndRank + k
        /\ \A a \in 1..Len(bundledBuyers), b \in 1..Len(snipingBuyers) :
              bundledBuyers[a] # snipingBuyers[b]
        /\ bundledBuyers \o snipingBuyers = returned

\* a list of four with the boundary behind rank 2: two bundled, two snipers
C20_Witness ==
    /\ pc = "formatted"
    /\ Len(returned) = 4
    /\ bundleEndRank = 2
    /\ Len(bundledBuyers) = 2
    /\ Len(snipingBuyers) = 2
    /\ snipingBuyers[1].rank = 3

\* the empty list: no boundary, no cohort
EmptyListWitness ==
    /\ pc = "formatted"
    /\ returned = <<>>
    /\ bundleEndRank = 0
    /\ bundledBuyers = <<>>
    /\ snipingBuyers = <<>>

(***************************************************************************)
(* Properties of the bundle boundary on records with every signal field    *)
(* (checked under SpecSignals)                                             *)
(***************************************************************************)
\* the pairs of ranks up to (i - 1, i) have no gap in block position
ContiguousUpTo(i) == \A j \in 2..i : ~PositionBreak(j)

\* the gas price of rank i is more than double that of rank i - 1
MoreThanDouble(i) == returned[i].gasPrice > 2 * returned[i - 1].gasPrice

\* the priority fee of rank i is more than triple that of rank i - 1
FeeMoreThanTriple(i) == returned[i].priorityFee > 3 * returned[i - 1].priorityFee

\* the difference of the gas prices of ranks i - 1 and i, in tenths of a Gwei
GasDifference(i) == Abs(returned[i].gasPrice - returned[i - 1].gasPrice)

\* C21: with contiguous block positions, an adjacent pair ends the bundle
\* only when the gas price rises to more than double the previous one (and
\* above the gas floor) or the priority fee to more than triple the previous
\* one (and above its floor); a smaller gas difference (5.0 then 5.5 Gwei, or
\* a decrease) sets no boundary. The floors are left at 0 here: any floor
\* above 0 only narrows the pairs the statement lets end a bundle.
C21_GasBreakOnlyOnJump ==
    pc = "formatted" =>
        \A i \in 2..Len(returned) :
            (ContiguousUpTo(i) /\ bundleEndRank = i - 1) =>
                (MoreThanDouble(i) \/ FeeMoreThanTriple(i))

\* C21 as amended: with contiguous block positions and equal gas prices up
\* to rank i - 1, the pair (i - 1, i) ends the bundle when its gas prices
\* differ by more than 0.1 Gwei, upward or downward, and does not when they
\* are equal, whatever the priority fees.
C21_GasBreakOnAnyChange ==
    pc = "formatted" =>
        \A i \in 2..Len(returned) :
            ( /\ ContiguousUpTo(i)
              /\ \A j \in 2..(i - 1) : GasDifference(j) = 0 )
            => /\ GasDifference(i) > GasChangeThreshold => bundleEndRank = i - 1
               /\ GasDifference(i) = 0 => bundleEndRank >= i

\* contiguous positions, gas [5.0, 5.0, 5.5] and equal priority fees: the
\* boundary is at rank 2
C21_Witness ==
    /\ pc = "formatted"
    /\ Len(returned) = 3
    /\ ContiguousUpTo(3)
    /\ returned[1].gasPrice = 50
    /\ returned[2].gasPrice = 50
    /\ returned[3].gasPrice = 55
    /\ \A k \in 1..3 : returned[k].priorityFee = 1
    /\ bundleEndRank = 2

\* C26: every record of the bundled cohort (rank <= bundleEndRank) was
\* acquired in the block of the rank-1 record: two adjacent buyers of
\* different blocks are never both inside the bundle, also when the later
\* one has a lower or a consecutive position in its own block.
C26_BundleIsOneBlock ==
    pc = "formatted" =>
        /\ \A k \in 1..Len(bundledBuyers) :
              bundledBuyers[k].blockNumber = returned[1].blockNumber
        /\ \A i \in 2..Len(returned) :
              returned[i].blockNumber # returned[i - 1].blockNumber =>
                  bundleEndRank < i

(***************************************************************************)
(* Properties of the display window (checked under SpecWindow)             *)
(***************************************************************************)
\* the records of `returned` whose rank lies in [startRank, min(endRank, N)],
\* in ascending order of rank
RanksOfWindow ==
    SubSeq(returned, startRank, Min(endRank, Len(returned)))

\* C23: the display window selects exactly the records whose rank lies in
\* [startRank, min(endRank, N)], in ascending order of rank, in the
\* position/gas draft and in the bribe-based draft.
C23_WindowSelectsRanks ==
    pc \in {"formatted", "formattedByBribe"} => displayBuyers = RanksOfWindow

\* the same for the position/gas draft alone
WindowSelectsRanksByPosition ==
    pc = "formatted" => displayBuyers = RanksOfWindow

\* four buyers with the boundary behind rank 2 and the window 2-3: one
\* bundled and one sniping buyer are displayed
WindowSelectsRanksByPositionWitness ==
    /\ pc = "formatted"
    /\ Len(returned) = 4
    /\ bundleEndRank = 2
    /\ startRank = 2
    /\ endRank = 3
    /\ Len(displayBuyers) = 2
    /\ displayBuyers[1].rank = 2
    /\ displayBuyers[2].rank = 3

(***************************************************************************)
(* Properties of the boundary on lists of rising gas prices (checked under *)
(* SpecRamp)                                                               *)
(***************************************************************************)
\* the sum of the gas prices of the ranks 1..k
RECURSIVE GasSum(_)
GasSum(k) == IF k = 0 THEN 0 ELSE returned[k].gasPrice + GasSum(k - 1)

\* the number of buyers the average is taken over: min(20, N)
AverageOver == Min(20, Len(returned))

\* the gas price of rank k exceeds 3 times the average of the first
\* min(20, N) buyers, and the floor
AboveFallback(k, floor) ==
    /\ returned[k].gasPrice * AverageOver > 3 * GasSum(AverageOver)
    /\ returned[k].gasPrice > floor

\* no adjacent pair has a break by the two rules of the specification: a gap
\* in position, a gas price more than doubled and above the floor, or a
\* priority fee more than tripled
NoBreakByRule(floor) ==
    \A i \in 2..Len(returned) :
        /\ ~PositionBreak(i)
        /\ ~(MoreThanDouble(i) /\ returned[i].gasPrice > floor)
        /\ ~FeeMoreThanTriple(i)

\* C24: when no adjacent pair gives a position or gas break and the average
\* gas price of the first min(20, N) buyers is below the cheap-gas threshold,
\* the boundary is set at the first buyer whose gas price exceeds 3 times
\* that average and the absolute floor (bundleEndRank is that buyer's rank
\* or the rank before it), instead of staying at N. The specification names
\* no values for the two thresholds: a cheap-gas threshold of 5 Gwei and a
\* floor of 1 Gwei are taken here.
C24_FallbackOnAverage ==
    LET cheap == 50
        floor == 10
        above == {k \in 1..Len(returned) : AboveFallback(k, floor)}
    IN  ( /\ pc = "formatted"
          /\ NoBreakByRule(floor)
          /\ GasSum(AverageOver) < cheap * AverageOver
          /\ above # {} )
        => \E k \in above :
              /\ \A j \in above : k <= j
              /\ bundleEndRank \in {k - 1, k}

(***************************************************************************)
(* Properties of two requests in flight at once (checked under SpecPair)   *)
(***************************************************************************)
\* the list a request retains when it runs alone on the log `log` with the
\* limit `lim`: the loop from event k, with the recipients `seen` and the
\* records `acc` so far
RECURSIVE AloneLoop(_, _, _, _, _)
AloneLoop(log, lim, k, seen, acc) ==
    IF k > Len(log) THEN acc
    ELSE IF ~Eligible(log[k]) \/ ToLowerCase(log[k].to) \in seen
         THEN AloneLoop(log, lim, k + 1, seen, acc)
         ELSE LET record == BuyerRecord(log[k], PairInfo, Len(acc) + 1,
                                        PairDetails(log[k]), PairBribe(log[k]))
              IN  IF Len(acc) + 1 >= lim
                  THEN Append(acc, record)
                  ELSE AloneLoop(log, lim, k + 1,
                                 seen \cup {ToLowerCase(log[k].to)},
                                 Append(acc, record))

AloneOf(req) == AloneLoop(req.log, req.limit, 1, {}, <<>>)

IsPrefix(a, b) == Len(a) <= Len(b) /\ SubSeq(b, 1, Len(a)) = a

\* request r is over: its results were formatted, or it threw
IsOver(req) == req.pc \in {"formatted", "failed", "done"}

\* C27: two requests whose handlers interleave at their awaits do not
\* influence each other: at every moment the records a request holds are
\* the first of those it retains when run alone on the same answers, and
\* once it is over its returned list, its bundleEndRank and its error are
\* those of the run alone.
C27_RequestsAreIsolated ==
    \A r \in DOMAIN requests :
        LET req == requests[r]
            alone == AloneOf(req)
        IN  /\ IsPrefix(req.results, alone)
            /\ IsOver(req) =>
                  IF Len(req.log) = 0
                  THEN req.error = "No transactions found" /\ req.returned = <<>>
                  ELSE IF alone = <<>>
                  THEN req.error = "No buyers found" /\ req.returned = <<>>
                  ELSE /\ req.error = ""
                       /\ req.returned = FilterLP(alone)
                       /\ req.bundleEndRank = DetectBundleEnd(FilterLP(alone))

\* both requests are inside their loops at once, each holding one record
\* and awaiting a lookup for a second buyer, and both hold the same wallet
C27_Witness ==
    /\ DOMAIN requests = Requests
    /\ requests[1].pc = "getBribeAmount"
    /\ requests[2].pc = "getTransactionDetails"
    /\ Len(requests[1].results) = 1
    /\ Len(requests[2].results) = 1
    /\ requests[1].buyers = requests[2].buyers
    /\ SameWallet(requests[1].results[1].wallet, requests[2].results[1].wallet)

\* the range of the message is one the claim calls invalid
RangeOutOfBounds == startRank < 1 \/ endRank < startRank \/ endRank > 100

\* C29: the limit the handler passes to analyzeFirstBuyers never exceeds
\* 100, and a request whose range has startRank < 1, endRank < startRank or
\* endRank > 100 makes no metadata, transfer-log or signal call and sends
\* one message, the rejection, and nothing else.
C29_LimitBoundedAndRangeRejected ==
    /\ limit <= 100
    /\ RangeOutOfBounds =>
          /\ limit = 0
          /\ calls = <<>>
          /\ lookups = <<>>
          /\ transactions = <<>>
          /\ pc \in {"handler", "done"}
          /\ pc = "handler" => messages = <<>>
          /\ pc = "done" =>
                 \/ messages = <<"sendInvalidRange">>
                 \/ messages = <<"sendInvalidAddress">>

\* the range 1-101 has been rejected with its one message and no call
C29_Witness ==
    /\ pc = "done"
    /\ startRank = 1
    /\ endRank = 101
    /\ messages = <<"sendInvalidRange">>
    /\ calls = <<>>

\* the range 91-100 has been accepted, the analysis was given the limit 100
\* and has made its calls
AcceptedRangeWitness ==
    /\ pc = "done"
    /\ startRank = 91
    /\ endRank = 100
    /\ limit = 100
    /\ Len(calls) > 2
    /\ Calls("sendResults") = 1

\* analyzeFirstBuyers has returned its list and the handler is over
AnalysisSucceeded == pc = "done" /\ Calls("deleteLoading") = 1

\* C30: whenever analyzeFirstBuyers completes successfully the handler sends
\* the results message, whatever deleteMessage answers, and sends no error
\* message for the request (other than for a rejection of the results
\* message itself).
C30_ResultsSentAfterAnalysis ==
    AnalysisSucceeded =>
        /\ Calls("sendResults") = 1
        /\ Calls("sendError") = 1 =>
               messages[Len(messages) - 1] = "sendResults"

\* deleteMessage is rejected after a successful analysis: the handler
\* answers with the error message and never sends the results
DeleteRejectedWitness ==
    /\ AnalysisSucceeded
    /\ Len(returned) > 0
    /\ error = TelegramError
    /\ messages = <<"sendLoading", "deleteLoading", "sendError">>

=============================================================================
